---- MODULE Spec2Model ----
(***************************************************************************)
(* Generalized zonal statistics for GRASS GIS (LEEClab).                   *)
(*                                                                         *)
(* The model covers the two metric functions (proportion_habitat,          *)
(* number_patches) and the GeneralizedZonalStats job: its readiness flags, *)
(* and the per-feature loop of run_zonal_stats / run_zonal_stats_v2 over   *)
(* the GRASS workspace (processing region, MASK, temporary rasters,        *)
(* attribute table).                                                       *)
(*                                                                         *)
(* Numbers returned by proportion_habitat are kept as exact rationals      *)
(* num/den; the rounding of Python floats is outside the model.            *)
(***************************************************************************)
EXTENDS Integers, Sequences, FiniteSets, TLC

\* ------------------------------------------------------------------ bounds

\* Largest cell count of a row of a frequency table drawn for proportion_habitat.
MaxCount == 3

\* Calls of the job's methods in one behaviour.
MaxCalls == 3

\* Longest select_cats list a caller passes.
MaxSel == 3

\* ------------------------------------------------------------ r.stats tables

\* The null marker of r.stats.
NullMark == "*"

\* The cell values r.stats can list, in the order r.stats lists them
\* (ascending, the null row last).
StatValues == <<"0", "1", "2", "3", "*">>

\* Cell counts of a row: r.stats -c lists only values that occur.
Counts == (1 .. MaxCount) \cup {10}

RECURSIVE TablesFrom(_)
\* Every r.stats -c output whose rows take their values from StatValues[k..],
\* in that order: each value is either absent or present with a count.
TablesFrom(k) ==
    IF k > Len(StatValues) THEN {<< >>}
    ELSE LET rest == TablesFrom(k + 1)
         IN  rest \cup { <<[val |-> StatValues[k], count |-> c]>> \o t :
                          c \in Counts, t \in rest }

\* valid_cell_counts: the non-empty lines of r.stats -c, each "value count".
StatTables == TablesFrom(1)

\* The cells of value v a table counts, 0 when it has no row for v.
CountOf(t, v) ==
    LET rows == {k \in 1 .. Len(t) : t[k].val = v}
    IN  IF rows = {} THEN 0 ELSE t[CHOOSE k \in rows : TRUE].count

\* ------------------------------------------------------- proportion_habitat

\* What a call of a metric function ends in: kind "value" is a returned
\* number num/den, "none" a return of None (the function ran off its end
\* after grass.error, which prints and does not raise), the other kinds are
\* the exception that left the function.  errors lists the grass.error
\* messages printed on the way.
Returned(n, d, errs) == [kind |-> "value", num |-> n, den |-> d, errors |-> errs]
ReturnedNone(errs)   == [kind |-> "none", num |-> 0, den |-> 1, errors |-> errs]
Raised(exc, errs)    == [kind |-> exc, num |-> 0, den |-> 1, errors |-> errs]

\* Whether one_count_float is bound after the two if/elif ladders: the first
\* binds it when zero is '1', the second when one is '1', or one is '*' and
\* zero is '0'.
OneCountBound(zero, one) ==
    zero = "1" \/ one = "1" \/ (one = NullMark /\ zero = "0")

\* one_count_float after the two if/elif ladders (the second overrides the
\* first), read only when it is bound.
OneCountFloat(zero, zero_count, one, one_count) ==
    IF one = "1" THEN one_count
    ELSE IF one = NullMark /\ zero = "0" THEN 0
    ELSE zero_count

\* zero_count_float after the first if/elif ladder (zero is '0' or '1').
ZeroCountFloat(zero, zero_count) == IF zero = "0" THEN zero_count ELSE 0

\* The try block: 100 * (one_count_float / (one_count_float +
\* zero_count_float)); the bare except turns the NameError of an unbound
\* one_count_float and a ZeroDivisionError into grass.error and None.
Proportion(bound, ocf, zcf, errs) ==
    IF ~bound \/ ocf + zcf = 0
    THEN ReturnedNone(Append(errs, "not_only_0_1"))
    ELSE Returned(100 * ocf, ocf + zcf, errs)

\* proportion_habitat(input_rast) on the r.stats -c table t of input_rast.
proportion_habitat(t) ==
    IF Len(t) > 3 THEN ReturnedNone(<<"more_than_3_values">>)
    ELSE IF Len(t) < 2 THEN Raised("IndexError", << >>)
    ELSE LET zero == t[1].val
             zero_count == t[1].count
             one == t[2].val
             one_count == t[2].count
             errs == IF Len(t) = 3 /\ t[3].val # NullMark
                     THEN <<"third_value">> ELSE << >>
         IN  IF zero \notin {"0", "1"} THEN Raised("Exception", errs)
             ELSE Proportion(OneCountBound(zero, one),
                             OneCountFloat(zero, zero_count, one, one_count),
                             ZeroCountFloat(zero, zero_count), errs)

\* ------------------------------------------------------------ number_patches

\* The lines of r.category for a raster whose visible cells hold the values
\* vals: one line per distinct non-null value.
CategoryLines(vals) == vals \ {NullMark}

\* ------------------------------------------------------------ the workspace
\* The GRASS location the job runs in: a row of grid cells, a vector layer
\* with three features, two rasters.  The layout is fixed; what the program
\* does to it is the state.

AllCells == 1 .. 9

\* The vector layers of the mapset and the features (cat) of each one's
\* attribute table.
Layers == {"mun_teste_wgs84", "shape2"}
LayerCats(layer) == IF layer = "mun_teste_wgs84" THEN {1, 2, 3} ELSE {1, 2}

\* The table name run_zonal_stats of the top-level module selects from.
HardCodedTable == "mun_teste_wgs84"

\* The bounding box of feature cat (v.db.select -r), aligned to the grid.
Extent(cat) == (3 * cat - 2) .. (3 * cat)

\* The cells whose centre lies in feature cat: feature 1 has a hole in its
\* bounding box, feature 2 is shorter than its aligned box, feature 3 fills it.
Footprint(cat) ==
    CASE cat = 1 -> {1, 3}
      [] cat = 2 -> {4, 5}
      [] cat = 3 -> {7, 8, 9}
      [] OTHER   -> {}

\* The cell values of the two input rasters.
RasterCells(rast) ==
    IF rast = "BR_2002_euca_9"
    THEN <<"1", "0", "0", "0", "2", "1", "1", "1", "*">>
    ELSE <<"0", "1", "0", "1", "1", "0", "0", "1", "*">>

InputRasters == <<"BR_2002_euca_9", "BR_2003_euca_9">>

\* A raster that does not exist, and one that has no cell in the region.
Absent == [exists |-> FALSE, cells |-> [c \in AllCells |-> NullMark]]
RasterOf(f) == [exists |-> TRUE, cells |-> f]

NoMask == [cat |-> 0, cells |-> {}]

\* The smallest window holding the cells S.
Hull(S) == {c \in AllCells : \E a, b \in S : a <= c /\ c <= b}

\* The value a module reads in cell c of a raster with cells cs: null outside
\* the MASK when one is set.
ReadCell(cs, c, msk) ==
    IF msk.cat # 0 /\ c \notin msk.cells THEN NullMark ELSE cs[c]

\* The cell values a module reads over the window reg.
VisibleValues(cs, reg, msk) == {ReadCell(cs, c, msk) : c \in reg}

RECURSIVE StatRows(_, _, _, _)
\* r.stats -c over the window: one row per value that occurs, ascending, the
\* null row last.
StatRows(cs, reg, msk, k) ==
    IF k > Len(StatValues) THEN << >>
    ELSE LET n == Cardinality({c \in reg : ReadCell(cs, c, msk) = StatValues[k]})
         IN  (IF n = 0 THEN << >> ELSE <<[val |-> StatValues[k], count |-> n]>>)
             \o StatRows(cs, reg, msk, k + 1)

\* grass.read_command('r.stats', flags = 'c', input = ...) over the current
\* window and MASK.
r_stats(cs, reg, msk) == StatRows(cs, reg, msk, 1)

\* v.to.rast cats = cat: value 1 in the cells of the feature inside the
\* window, null elsewhere.
v_to_rast(cat, reg) ==
    RasterOf([c \in AllCells |->
                 IF c \in Footprint(cat) \cap reg THEN "1" ELSE NullMark])

\* Mutant of r_mask: the MASK covers the whole window.
r_mask_WholeWindow(cat, reg) == [cat |-> cat, cells |-> reg]

\* r.mask vector = ..., cats = cat: the MASK is the feature rasterized in the
\* current window.
r_mask(cat, reg) == [cat |-> cat, cells |-> Footprint(cat) \cap reg]

\* The cells g.region raster = temp_rast, zoom = temp_rast keeps: the window
\* of the non-null cells of temp_rast.
ZoomCells(tr) == Hull({c \in AllCells : tr.cells[c] # NullMark})

\* r.mapcalc "temp_rast_input = if(temp_rast == 1, rast, null())" over the
\* window, both operands read through the MASK.
MaskedCopy(tr, rast, reg, msk) ==
    RasterOf([c \in AllCells |->
                 IF c \in reg /\ ReadCell(tr.cells, c, msk) = "1"
                 THEN ReadCell(RasterCells(rast), c, msk) ELSE NullMark])

\* r.mapcalc "pid_mask = rast" over the window, read through the MASK.
PlainCopy(cs, reg, msk) ==
    RasterOf([c \in AllCells |->
                 IF c \in reg THEN ReadCell(cs, c, msk) ELSE NullMark])

\* ------------------------------------------------------------ create_new_column

\* The column names callers pass, with len() of each.
ColNames == {"p_eu_2002", "p_eu_2003", "proportion_euca"}
NameLen(name) ==
    CASE name = "p_eu_2002" -> 9
      [] name = "p_eu_2003" -> 9
      [] name = "proportion_euca" -> 15
      [] OTHER -> 0

\* The type tags callers pass; "date" is documented and not implemented.
TypeTags == {"int", "float", "string", "date"}

\* type_col_str of a known tag.
TypeColStr(tag) ==
    CASE tag = "int" -> "integer"
      [] tag = "float" -> "double precision"
      [] tag = "string" -> "varchar(20)"
      [] OTHER -> "undefined"

Range(q) == {q[k] : k \in 1 .. Len(q)}

\* Lists of length n over S without repeats.
RECURSIVE DistinctSeqs(_, _)
DistinctSeqs(S, n) ==
    IF n = 0 THEN {<< >>}
    ELSE {Append(q, x) : q \in DistinctSeqs(S, n - 1), x \in S} \cap
         {q \in [1 .. n -> S] : \A a, b \in 1 .. n : a # b => q[a] # q[b]}

\* The separator create_new_column appends after an entry of list_cols.
Comma == [name |-> ", ", type |-> ""]

\* Mutant of AnyTooLong: only the first name is measured.
AnyTooLong_FirstOnly(names) == names # << >> /\ NameLen(names[1]) > 10

\* any([len(i) > 10 for i in column_names])
AnyTooLong(names) == \E k \in 1 .. Len(names) : NameLen(names[k]) > 10

\* Mutant of ColumnExists: no column is found in the table.
ColumnExists_Never(name, existing) == FALSE

\* column_names[i] in existing_cols
ColumnExists(name, existing) == name \in existing

\* Mutant of AnswerIsYes: every prompt is taken as answered Y.
AnswerIsYes_Always(prompts, yes) == TRUE

\* overwrite == 'Y' or overwrite == 'y', for a caller who answers Y to the
\* first yes prompts of the call and something else to the next one.
AnswerIsYes(prompts, yes) == prompts < yes

\* Mutant of KnownType: every tag is taken as known.
KnownType_Any(tag) == TRUE

\* The tags the if / elif ladder of type_col[i] knows.
KnownType(tag) == tag \in {"int", "float", "string"}

RECURSIVE ColumnLoop(_, _, _, _, _, _)
\* The for loop of create_new_column from index i on: list_cols so far, the
\* prompts answered Y so far, and yes, the number of prompts the caller
\* answers Y before declining with the answer decline.  Ends in the finished
\* list_cols or in the exception that leaves the loop.
ColumnLoop(names, types, existing, i, acc, yes) ==
    IF i > Len(names) THEN [exc |-> "", list_cols |-> acc.list_cols]
    ELSE IF ColumnExists(names[i], existing)
    THEN IF AnswerIsYes(acc.prompts, yes)
         THEN ColumnLoop(names, types, existing, i + 1,
                         [acc EXCEPT !.prompts = @ + 1], yes)
         ELSE [exc |-> "Exception", list_cols |-> acc.list_cols]
    ELSE IF ~KnownType(types[i])
    THEN [exc |-> "NameError", list_cols |-> acc.list_cols]
    ELSE LET entry == [name |-> names[i], type |-> TypeColStr(types[i])]
             more  == IF i < Len(names) THEN <<entry, Comma>> ELSE <<entry>>
         IN  ColumnLoop(names, types, existing, i + 1,
                        [acc EXCEPT !.list_cols = @ \o more], yes)

RECURSIVE v_db_addcolumn(_, _)
\* v.db.addcolumn columns = list_cols: the list is split at its commas and
\* the columns are added one by one; what follows a trailing comma names no
\* column, and the module stops there with a fatal error.
v_db_addcolumn(list_cols, cols) ==
    IF list_cols = << >> THEN [ok |-> TRUE, columns |-> cols]
    ELSE IF Len(list_cols) = 1
    THEN [ok |-> list_cols[1] # Comma,
          columns |-> IF list_cols[1] # Comma
                      THEN cols \cup {list_cols[1].name} ELSE cols]
    ELSE IF list_cols[1] = Comma THEN [ok |-> FALSE, columns |-> cols]
    ELSE IF Len(list_cols) = 2
    THEN [ok |-> FALSE, columns |-> cols \cup {list_cols[1].name}]
    ELSE v_db_addcolumn(SubSeq(list_cols, 3, Len(list_cols)),
                        cols \cup {list_cols[1].name})

\* ------------------------------------------------------------------- state

VARIABLES
    module,         \* which file the class was imported from: "root" or "v001"
    load_ok,        \* self.load_ok
    set_cols,       \* self.set_cols
    input_shape,    \* self.input_shape
    input_rasters,  \* self.input_rasters
    column_names,   \* self.column_names (<< >> before it is first assigned)
    columns,        \* the columns of the attribute table of input_shape
    attr,           \* the attribute table of input_shape: cat -> column -> text
    region,         \* the current processing window (g.region)
    mask,           \* the MASK of the mapset, NoMask when none is set
    temp,           \* the temporary rasters of the mapset
    pc,             \* where the current method call stands
    entry,          \* the method running: run_zonal_stats or run_zonal_stats_v2
    function,       \* the metric function passed to run
    kwmask,         \* the keyword argument mask passed on to number_patches
    select_cats,    \* the argument select_cats
    cats,           \* the local list cats
    pos,            \* the position of the for loop in cats
    i,              \* the index of the inner loop
    val,            \* the local val
    named,          \* what select_cats named (kept for the frame claims)
    attr0,          \* the attribute table when the run was entered
    ws0,            \* the MASK and the temporary rasters when it was entered
    outcome,        \* how the last method call ended
    log,            \* the module calls the current method call has issued
    ncalls,         \* the method calls made so far
    ph_table,       \* the table handed to proportion_habitat on its own
    ph_result,      \* what that call ended in
    np_rast,        \* the cells of the raster handed to number_patches on its own
    mapset,         \* the layers of the current mapset
    overwrite_shape,    \* the argument overwrite_shape of __init__
    overwrite_rasters,  \* the argument overwrite_rasters of __init__
    type_col,       \* the argument type_col of the last create_new_column call
    answers,        \* the prompts of that call its caller answers Y
    first,          \* how the call before ended, when the last call repeated it
    list_cols       \* the columns argument of the v.db.addcolumn that call issued

jobVars == <<module, load_ok, set_cols, input_shape, input_rasters, column_names>>
engineVars == <<columns, attr, region, mask, temp>>
frameVars == <<pc, entry, function, kwmask, select_cats, cats, pos, i, val,
               named, attr0, ws0, outcome, log, ncalls>>
phVars == <<ph_table, ph_result, np_rast>>
ctorVars == <<mapset, overwrite_shape, overwrite_rasters>>
argVars == <<type_col, answers, first, list_cols>>
vars == <<jobVars, engineVars, frameVars, phVars, ctorVars, argVars>>

\* The text a column holds: str(val) of a number, of None, or nothing yet.
NullText == [text |-> "NULL", num |-> 0, den |-> 1]
NoneText == [text |-> "None", num |-> 0, den |-> 1]

RECURSIVE Gcd(_, _)
Gcd(a, b) == IF b = 0 THEN a ELSE Gcd(b, a % b)

\* str(val): the digits of a number (here the fraction in lowest terms), the
\* word None for None.
Str(v) ==
    IF v.kind = "value"
    THEN LET g == IF v.num = 0 THEN v.den ELSE Gcd(v.num, v.den)
         IN  [text |-> "number", num |-> v.num \div g, den |-> v.den \div g]
    ELSE NoneText

NoVal == ReturnedNone(<< >>)
AllSelected == [all |-> TRUE, ids |-> << >>]
NoneNamed == [all |-> TRUE, len |-> 0, ids |-> {}]
NoTemp == [temp_rast |-> Absent, temp_rast_input |-> Absent, pid_mask |-> Absent]

\* The MASK and the temporary rasters of the mapset.
Workspace == [mask |-> mask, temp |-> temp]

\* The locals of a method call that is not running.
FrameIdle ==
    /\ entry = "" /\ function = "" /\ kwmask = FALSE
    /\ select_cats = AllSelected /\ cats = << >> /\ pos = 0 /\ i = 0
    /\ val = NoVal /\ named = NoneNamed /\ log = << >>

PhIdle == ph_table = << >> /\ ph_result = NoVal /\ np_rast = Absent.cells

\* No create_new_column call is the last call made.
ArgsIdle ==
    type_col = << >> /\ answers = 0 /\ first = "" /\ list_cols = << >>

\* The layers the job names: the vector layer, then the rasters.
JobLayers(shape, rasters) == <<shape>> \o rasters

\* After the first lines of __init__: both flags False, the names stored.
\* The table of the vector layer may already have a column.
InitJob ==
    /\ module \in {"root", "v001"}
    /\ load_ok = FALSE /\ set_cols = FALSE
    /\ input_shape \in Layers
    /\ input_rasters = InputRasters
    /\ column_names = << >>
    /\ columns \in {{}, {"p_eu_2002"}}
    /\ attr = [c \in LayerCats(input_shape) |-> [n \in ColNames |-> NullText]]
    /\ region = AllCells /\ mask = NoMask /\ temp = NoTemp
    /\ pc = "init" /\ FrameIdle /\ attr0 = attr /\ ws0 = Workspace /\ outcome = "" /\ ncalls = 0
    /\ PhIdle
    /\ overwrite_shape \in BOOLEAN /\ overwrite_rasters \in BOOLEAN
    /\ ArgsIdle

\* The job is constructed in a mapset that holds none of its layers yet (the
\* first construction of the test script) or all of them (the later ones).
Init ==
    /\ InitJob
    /\ mapset \in {{}, Range(JobLayers(input_shape, input_rasters))}

\* The job is constructed in a mapset that holds any of its layers.
InitAnyMapset ==
    /\ InitJob
    /\ mapset \in SUBSET Range(JobLayers(input_shape, input_rasters))

\* ---------------------------------------------------------------- __init__

\* A call of a GRASS module or function, with the feature (or, in __init__,
\* the place of the layer in the job: 0 the vector, k the k-th raster) it is for.
Event(op, c) == [op |-> op, cat |-> c]

\* Mutant of NeedsImport: the overwrite flag is not read.
NeedsImport_AbsentOnly(present, overwrite) == ~present

\* (not shape_exists) or (overwrite_shape); (not i in raster_list) or
\* (overwrite_rasters).
NeedsImport(present, overwrite) == ~present \/ overwrite

\* v.in.ogr for the vector layer (the first of the job), r.in.gdal for a raster.
ImportOp(k) == IF k = 1 THEN "v.in.ogr" ELSE "r.in.gdal"

\* The rest of __init__ on a mapset holding the layers present: each layer of
\* the job is imported or, when it is there and not to be overwritten, named
\* in a warning; the lists of the mapset are read once, before the imports.
\* failAt is the layer whose import (os.chdir(folder), v.in.ogr, r.in.gdal)
\* raises, 0 when none does; load_ok becomes True on the last line only.
InitResult(layers, present, ow_shape, ow_rasters, failAt) ==
    LET Needs(k) == NeedsImport(layers[k] \in present,
                                IF k = 1 THEN ow_shape ELSE ow_rasters)
        stop == IF failAt > 0 /\ Needs(failAt) THEN failAt ELSE 0
        last == IF stop = 0 THEN Len(layers) ELSE stop
    IN  [load_ok |-> stop = 0,
         log |-> [k \in 1 .. last |->
                     IF Needs(k) THEN Event(ImportOp(k), k - 1)
                     ELSE Event("grass.warning", k - 1)],
         mapset |-> present \cup
                    {layers[k] : k \in {j \in 1 .. last : j # stop /\ Needs(j)}}]

\* The rest of __init__; its arguments overwrite_shape and overwrite_rasters
\* are gone when it ends.
GeneralizedZonalStats_init ==
    /\ pc = "init"
    /\ \E failAt \in 0 .. Len(JobLayers(input_shape, input_rasters)) :
          LET r == InitResult(JobLayers(input_shape, input_rasters), mapset,
                              overwrite_shape, overwrite_rasters, failAt)
          IN  /\ load_ok' = r.load_ok
              /\ log' = r.log
              /\ mapset' = r.mapset
              /\ outcome' = IF r.load_ok THEN "ok" ELSE "CalledModuleError"
    /\ overwrite_shape' = FALSE /\ overwrite_rasters' = FALSE
    /\ pc' = "idle"
    /\ UNCHANGED <<module, set_cols, input_shape, input_rasters, column_names>>
    /\ UNCHANGED engineVars
    /\ UNCHANGED <<entry, function, kwmask, select_cats, cats, pos, i, val,
                   named, attr0, ws0, ncalls>>
    /\ UNCHANGED phVars
    /\ UNCHANGED argVars

\* ------------------------------------------------------- create_new_column

\* The type_col lists callers pass: lists as long as input_rasters over a
\* known and an unknown tag, and one shorter and one longer list (of a list of
\* another length the method reads the length only).
TypeLists ==
    [1 .. Len(InputRasters) -> {"float", "date"}] \cup
    {<<"int">>, <<"int", "float", "string">>}

\* The column_names lists callers pass: every list of one or two names (no
\* name twice) and one list of three.
NameLists ==
    DistinctSeqs(ColNames, 1) \cup DistinctSeqs(ColNames, 2) \cup
    {<<"p_eu_2002", "p_eu_2003", "proportion_euca">>}

\* The arguments of a call: the names, the type tags, and the number of
\* overwrite prompts the caller answers Y before declining.
ColumnArgs ==
    {[names |-> n, types |-> t, yes |-> y] :
        n \in NameLists, t \in TypeLists, y \in 0 .. 2}

\* What create_new_column(column_names, type_col) does to set_cols and to the
\* columns of the table, the module calls it issues, and how it ends.  present
\* tells whether the vector layer is in the mapset (v.vector_columns stops
\* with an error when it is not).
CreateResult(a, rasters, existing, was_set, present) ==
    IF AnyTooLong(a.names)
    THEN [outcome |-> "ValueError", columns |-> existing, set_cols |-> was_set,
          log |-> << >>, list_cols |-> << >>]
    ELSE IF Len(a.names) = Len(rasters) /\ Len(a.types) = Len(rasters)
    THEN LET loop == ColumnLoop(a.names, a.types, existing, 1,
                                [list_cols |-> << >>, prompts |-> 0], a.yes)
             added == v_db_addcolumn(loop.list_cols, existing)
             query == <<Event("v.vector_columns", 0)>>
         IN  IF ~present
             THEN [outcome |-> "CalledModuleError", columns |-> existing,
                   set_cols |-> was_set, log |-> query, list_cols |-> << >>]
             ELSE IF loop.exc # ""
             THEN [outcome |-> loop.exc, columns |-> existing,
                   set_cols |-> was_set, log |-> query, list_cols |-> << >>]
             ELSE IF loop.list_cols = << >>
             THEN [outcome |-> "ok", columns |-> existing, set_cols |-> TRUE,
                   log |-> query, list_cols |-> << >>]
             ELSE IF ~added.ok
             THEN [outcome |-> "CalledModuleError", columns |-> added.columns,
                   set_cols |-> was_set,
                   log |-> Append(query, Event("v.db.addcolumn", 0)),
                   list_cols |-> loop.list_cols]
             ELSE [outcome |-> "ok", columns |-> added.columns,
                   set_cols |-> TRUE,
                   log |-> Append(query, Event("v.db.addcolumn", 0)),
                   list_cols |-> loop.list_cols]
    ELSE [outcome |-> "lengths_differ", columns |-> existing,
          set_cols |-> was_set, log |-> << >>, list_cols |-> << >>]

\* The prompts of a call its caller answers Y: the first yes of them, or all
\* when the call has fewer.
YesAnswers(names, existing, yes) ==
    LET asked == Cardinality({k \in 1 .. Len(names) : names[k] \in existing})
    IN  IF asked < yes THEN asked ELSE yes

\* One call create_new_column(a.names, a.types) on the job; again tells
\* whether it repeats the call made just before.
CreateCall(a, again) ==
    LET r == CreateResult(a, input_rasters, columns, set_cols,
                          input_shape \in mapset)
    IN  /\ column_names' = a.names
        /\ type_col' = a.types
        /\ answers' = YesAnswers(a.names, columns, a.yes)
        /\ set_cols' = r.set_cols
        /\ columns' = r.columns
        /\ outcome' = r.outcome
        /\ log' = r.log
        /\ first' = IF again THEN outcome ELSE ""
        /\ list_cols' = r.list_cols
        /\ ncalls' = ncalls + 1
        /\ UNCHANGED <<module, load_ok, input_shape, input_rasters>>
        /\ UNCHANGED <<attr, region, mask, temp>>
        /\ UNCHANGED <<pc, entry, function, kwmask, select_cats, cats, pos, i,
                       val, named, attr0, ws0>>
        /\ UNCHANGED phVars
        /\ UNCHANGED ctorVars

create_new_column ==
    /\ pc = "idle" /\ ncalls < MaxCalls
    /\ \E a \in ColumnArgs : CreateCall(a, FALSE)

\* The caller repeats the create_new_column call just made, with the same
\* column_names and type_col, and answers Y to every prompt.
create_new_column_again ==
    /\ pc = "idle" /\ ncalls < MaxCalls
    /\ type_col # << >> /\ first = ""
    /\ CreateCall([names |-> column_names, types |-> type_col,
                   yes |-> Len(column_names)], TRUE)

\* ------------------------------------------------------------ the metrics

\* Mutant of CountLines: the empty strings of the split are counted too.
CountLines_WithEmpty(lines) == Cardinality(lines) + 1

\* len([val for val in maps_vals_aux if val != ''])
CountLines(lines) == Cardinality(lines)

\* One call number_patches(input_raster_pid, mask) on a raster with the cells
\* cs: what it returns or raises, and the temporary rasters it leaves.  With
\* mask the raster is first copied to pid_mask (r.mapcalc refuses to replace
\* an existing map), the lines of r.category are counted, and pid_mask is
\* removed on the way to the return.  category_ok tells whether the
\* r.category call succeeds; read_command raises when it does not.
NumberPatchesCall(cs, use_mask, reg, msk, tmp, category_ok) ==
    IF use_mask /\ tmp.pid_mask.exists
    THEN [result |-> Raised("CalledModuleError", << >>), temp |-> tmp]
    ELSE LET copy == PlainCopy(cs, reg, msk)
             made == IF use_mask THEN [tmp EXCEPT !.pid_mask = copy] ELSE tmp
             src  == IF use_mask THEN copy.cells ELSE cs
         IN  IF ~category_ok
             THEN [result |-> Raised("CalledModuleError", << >>), temp |-> made]
             ELSE [result |-> Returned(
                       CountLines(CategoryLines(VisibleValues(src, reg, msk))),
                       1, << >>),
                   temp |-> [made EXCEPT !.pid_mask =
                                IF use_mask THEN Absent ELSE @]]

\* number_patches(input_raster_pid, mask) as run calls it, r.category
\* succeeding: the value returned or the exception raised.
number_patches(cs, use_mask, reg, msk, tmp) ==
    NumberPatchesCall(cs, use_mask, reg, msk, tmp, TRUE).result

\* function(rast, *args, **kwargs) for the two metric functions of the module.
CallMetric(fn, use_mask, cs, reg, msk, tmp) ==
    IF fn = "proportion_habitat" THEN proportion_habitat(r_stats(cs, reg, msk))
    ELSE number_patches(cs, use_mask, reg, msk, tmp)

\* ---------------------------------------------------------- run_zonal_stats

Entries(m) ==
    IF m = "root" THEN {"run_zonal_stats"}
    ELSE {"run_zonal_stats", "run_zonal_stats_v2"}

\* The select_cats a caller passes: 'all', or a list of identifiers, known or
\* not ("9" is no feature of any layer), with or without repeats.  run reads
\* only the length of the list and which identifiers are in it, so one list
\* stands for all its reorderings.
SelectLists ==
    {AllSelected} \cup
    {[all |-> FALSE, ids |-> q] :
        q \in UNION {{r \in [1 .. k -> {1, 2, 3, 9}] :
                        \A a \in 1 .. k - 1 : r[a] <= r[a + 1]} : k \in 0 .. MaxSel}}

\* The orders in which db.select lists the rows of a table: by cat, or from
\* the last row on (1, 2, 3 and 3, 1, 2).
RowOrders(layer) ==
    LET n == Cardinality(LayerCats(layer))
    IN  {[k \in 1 .. n |-> k], [k \in 1 .. n |-> IF k = 1 THEN n ELSE k - 1]}

\* The table the cat column is selected from.
CatTable(m, shape) == IF m = "root" THEN HardCodedTable ELSE shape

\* The message of the exception run raises when a flag is unset.
NotReady(loaded, cols_set) ==
    IF ~loaded THEN "Maps were not loaded successfully"
    ELSE IF ~cols_set THEN "Columns were not set successfully"
    ELSE ""

\* Mutant of ReadyToRun: set_cols is not tested.
ReadyToRun_LoadedOnly(loaded, cols_set) == loaded

\* if self.set_cols and self.load_ok
ReadyToRun(loaded, cols_set) == cols_set /\ loaded

\* [val for val in cats if val in select_cats]
FilterCats(q, sel) ==
    LET F[k \in 0 .. Len(q)] ==
            IF k = 0 THEN << >>
            ELSE IF q[k] \in Range(sel) THEN Append(F[k - 1], q[k]) ELSE F[k - 1]
    IN  F[Len(q)]

\* The rows run goes through: the filter is applied when select_cats is not
\* 'all' and is no longer than the list of rows.
SelectedCats(rows, sel) ==
    IF ~sel.all /\ Len(sel.ids) <= Len(rows)
    THEN FilterCats(rows, sel.ids) ELSE rows

\* What the frame claims keep of select_cats once the list itself is no
\* longer read: whether it was 'all', its length, and the rows it names.
Named(sel, rows) ==
    [all |-> sel.all, len |-> Len(sel.ids),
     ids |-> IF sel.all THEN Range(rows) ELSE Range(sel.ids) \cap Range(rows)]

\* The call of run_zonal_stats / run_zonal_stats_v2 down to the for loop: the
\* flags are tested, the cat column is selected and the rows are filtered.
RunEnter ==
    /\ pc = "idle" /\ ncalls < MaxCalls
    /\ ncalls' = ncalls + 1
    /\ \E e \in Entries(module), fn \in {"proportion_habitat", "number_patches"},
          km \in BOOLEAN, sel \in SelectLists,
          order \in RowOrders(CatTable(module, input_shape)) :
          /\ (fn = "proportion_habitat" => ~km)
          /\ (module = "root" => sel = AllSelected)
          /\ entry' = e /\ function' = fn /\ kwmask' = km
          /\ IF ReadyToRun(load_ok, set_cols)
             THEN /\ pc' = "selected"
                  /\ select_cats' = sel
                  /\ cats' = SelectedCats(order, sel)
                  /\ named' = Named(sel, order)
                  /\ pos' = 1
                  /\ log' = <<Event("db.select", 0)>>
                  /\ outcome' = ""
             ELSE /\ pc' = "raised"
                  /\ select_cats' = AllSelected
                  /\ cats' = << >>
                  /\ named' = NoneNamed
                  /\ pos' = 0
                  /\ log' = << >>
                  /\ outcome' = NotReady(load_ok, set_cols)
    /\ attr0' = attr
    /\ ws0' = Workspace
    /\ type_col' = << >> /\ answers' = 0 /\ first' = "" /\ list_cols' = << >>
    /\ UNCHANGED <<i, val>>
    /\ UNCHANGED jobVars
    /\ UNCHANGED engineVars
    /\ UNCHANGED phVars
    /\ UNCHANGED ctorVars

\* Mutant of Cat: the loop variable stays at the first row.
Cat_First == cats[1]

\* The feature the for loop stands at.
Cat == cats[pos]

\* The next method-local step after the body of the outer loop.
AfterFeature == IF pos + 1 > Len(cats) THEN "returned" ELSE "extent"

\* The window the first g.region of a feature sets: the extent of the whole
\* layer (top-level module) or the extent of the feature's own row.
FirstRegion(m, c) == IF m = "root" THEN AllCells ELSE Extent(c)

\* for cat in cats: the loop is entered, or run returns when the list is empty.
RunLoop ==
    /\ pc = "selected"
    /\ select_cats' = AllSelected
    /\ IF cats = << >>
       THEN pc' = "returned" /\ outcome' = "ok"
       ELSE pc' = "extent" /\ outcome' = outcome
    /\ UNCHANGED <<entry, function, kwmask, cats, pos, i, val, named, attr0, ws0,
                   log, ncalls>>
    /\ UNCHANGED jobVars
    /\ UNCHANGED engineVars
    /\ UNCHANGED phVars
    /\ UNCHANGED ctorVars
    /\ UNCHANGED argVars

\* v.db.select -r (or r.raster_info) and the first g.region of the feature.
RunExtent ==
    /\ pc = "extent"
    /\ region' = FirstRegion(module, Cat)
    /\ log' = log \o <<Event("extent", Cat), Event("g.region", Cat)>>
    /\ pc' = "rasterize"
    /\ UNCHANGED <<entry, function, kwmask, select_cats, cats, pos, i, val,
                   named, attr0, ws0, outcome, ncalls>>
    /\ UNCHANGED jobVars
    /\ UNCHANGED <<columns, attr, mask, temp>>
    /\ UNCHANGED phVars
    /\ UNCHANGED ctorVars
    /\ UNCHANGED argVars

\* v.to.rast output = temp_rast, cats = cat, overwrite; the module stops with
\* an error when the layer has no such feature.
RunRasterize ==
    /\ pc = "rasterize"
    /\ log' = Append(log, Event("v.to.rast", Cat))
    /\ IF Cat \in LayerCats(input_shape)
       THEN /\ temp' = [temp EXCEPT !.temp_rast = v_to_rast(Cat, region)]
            /\ pc' = "zoom" /\ outcome' = outcome
       ELSE /\ temp' = temp
            /\ pc' = "raised" /\ outcome' = "CalledModuleError"
    /\ UNCHANGED <<entry, function, kwmask, select_cats, cats, pos, i, val,
                   named, attr0, ws0, ncalls>>
    /\ UNCHANGED jobVars
    /\ UNCHANGED <<columns, attr, region, mask>>
    /\ UNCHANGED phVars
    /\ UNCHANGED ctorVars
    /\ UNCHANGED argVars

\* g.region raster = temp_rast, zoom = temp_rast.
RunZoom ==
    /\ pc = "zoom"
    /\ region' = ZoomCells(temp.temp_rast)
    /\ log' = Append(log, Event("g.region zoom", Cat))
    /\ pc' = IF entry = "run_zonal_stats_v2" THEN "mapcalc" ELSE "mask"
    /\ i' = 1
    /\ UNCHANGED <<entry, function, kwmask, select_cats, cats, pos, val,
                   named, attr0, ws0, outcome, ncalls>>
    /\ UNCHANGED jobVars
    /\ UNCHANGED <<columns, attr, mask, temp>>
    /\ UNCHANGED phVars
    /\ UNCHANGED ctorVars
    /\ UNCHANGED argVars

\* r.mask vector = input_shape, cats = cat, overwrite (run_zonal_stats only).
RunMask ==
    /\ pc = "mask"
    /\ mask' = r_mask(Cat, region)
    /\ log' = Append(log, Event("r.mask", Cat))
    /\ pc' = "metric"
    /\ UNCHANGED <<entry, function, kwmask, select_cats, cats, pos, i, val,
                   named, attr0, ws0, outcome, ncalls>>
    /\ UNCHANGED jobVars
    /\ UNCHANGED <<columns, attr, region, temp>>
    /\ UNCHANGED phVars
    /\ UNCHANGED ctorVars
    /\ UNCHANGED argVars

\* grass.mapcalc(temp_rast_input = if(temp_rast == 1, rast, null()),
\* overwrite) (run_zonal_stats_v2 only).
RunMapcalc ==
    /\ pc = "mapcalc"
    /\ temp' = [temp EXCEPT !.temp_rast_input =
                   MaskedCopy(temp.temp_rast, input_rasters[i], region, mask)]
    /\ log' = Append(log, Event("r.mapcalc", Cat))
    /\ pc' = "metric"
    /\ UNCHANGED <<entry, function, kwmask, select_cats, cats, pos, i, val,
                   named, attr0, ws0, outcome, ncalls>>
    /\ UNCHANGED jobVars
    /\ UNCHANGED <<columns, attr, region, mask>>
    /\ UNCHANGED phVars
    /\ UNCHANGED ctorVars
    /\ UNCHANGED argVars

\* The cells of the raster the metric function is called with.
MetricInput(e, rast, tmp) ==
    IF e = "run_zonal_stats_v2" THEN tmp.temp_rast_input.cells
    ELSE RasterCells(rast)

\* val = function(rast, *args, **kwargs): an exception of the function leaves
\* run at once.
RunMetric ==
    /\ pc = "metric"
    /\ LET r == CallMetric(function, kwmask,
                           MetricInput(entry, input_rasters[i], temp),
                           region, mask, temp)
       IN  /\ val' = r
           /\ IF r.kind \in {"value", "none"}
              THEN pc' = "update" /\ outcome' = outcome
              ELSE pc' = "raised" /\ outcome' = r.kind
    /\ log' = Append(log, Event("function", Cat))
    /\ UNCHANGED <<entry, function, kwmask, select_cats, cats, pos, i,
                   named, attr0, ws0, ncalls>>
    /\ UNCHANGED jobVars
    /\ UNCHANGED engineVars
    /\ UNCHANGED phVars
    /\ UNCHANGED ctorVars
    /\ UNCHANGED argVars

\* Mutant of v_db_update: the where clause is lost.
v_db_update_AllRows(table, col, text, c) ==
    [f \in DOMAIN table |-> [table[f] EXCEPT ![col] = text]]

\* Mutant of v_db_update: the where clause selects the rows from cat on.
v_db_update_FromRow(table, col, text, c) ==
    [f \in DOMAIN table |->
        IF f >= c THEN [table[f] EXCEPT ![col] = text] ELSE table[f]]

\* v.db.update column = col, value = str(val), where cat = c: the rows whose
\* cat is c get the text.
v_db_update(table, col, text, c) ==
    [f \in DOMAIN table |->
        IF f = c THEN [table[f] EXCEPT ![col] = text] ELSE table[f]]

\* col = self.column_names[i] and v.db.update: an index past the list and a
\* column the table lacks end run with an exception.
RunUpdate ==
    /\ pc = "update"
    /\ IF i > Len(column_names)
       THEN /\ pc' = "raised" /\ outcome' = "IndexError"
            /\ attr' = attr /\ log' = log /\ i' = i
       ELSE IF column_names[i] \notin columns
       THEN /\ pc' = "raised" /\ outcome' = "CalledModuleError"
            /\ attr' = attr /\ i' = i
            /\ log' = Append(log, Event("v.db.update", Cat))
       ELSE /\ attr' = v_db_update(attr, column_names[i], Str(val), Cat)
            /\ log' = Append(log, Event("v.db.update", Cat))
            /\ outcome' = outcome
            /\ IF entry = "run_zonal_stats_v2"
               THEN pc' = "remove_input" /\ i' = i
               ELSE IF i < Len(input_rasters)
               THEN pc' = "metric" /\ i' = i + 1
               ELSE pc' = "unmask" /\ i' = i
    /\ UNCHANGED <<entry, function, kwmask, select_cats, cats, pos, val,
                   named, attr0, ws0, ncalls>>
    /\ UNCHANGED jobVars
    /\ UNCHANGED <<columns, region, mask, temp>>
    /\ UNCHANGED phVars
    /\ UNCHANGED ctorVars
    /\ UNCHANGED argVars

\* g.remove pattern = temp_rast_input (run_zonal_stats_v2 only).
RunRemoveInput ==
    /\ pc = "remove_input"
    /\ temp' = [temp EXCEPT !.temp_rast_input = Absent]
    /\ log' = Append(log, Event("g.remove temp_rast_input", Cat))
    /\ IF i < Len(input_rasters)
       THEN pc' = "mapcalc" /\ i' = i + 1
       ELSE pc' = "remove" /\ i' = i
    /\ UNCHANGED <<entry, function, kwmask, select_cats, cats, pos, val,
                   named, attr0, ws0, outcome, ncalls>>
    /\ UNCHANGED jobVars
    /\ UNCHANGED <<columns, attr, region, mask>>
    /\ UNCHANGED phVars
    /\ UNCHANGED ctorVars
    /\ UNCHANGED argVars

\* r.mask -r (run_zonal_stats only).
RunUnmask ==
    /\ pc = "unmask"
    /\ mask' = NoMask
    /\ log' = Append(log, Event("r.mask -r", Cat))
    /\ pc' = "remove"
    /\ UNCHANGED <<entry, function, kwmask, select_cats, cats, pos, i, val,
                   named, attr0, ws0, outcome, ncalls>>
    /\ UNCHANGED jobVars
    /\ UNCHANGED <<columns, attr, region, temp>>
    /\ UNCHANGED phVars
    /\ UNCHANGED ctorVars
    /\ UNCHANGED argVars

\* g.remove pattern = temp_rast and the message of the feature; the loop goes
\* on with the next row, or run returns after the last.
RunRemove ==
    /\ pc = "remove"
    /\ temp' = [temp EXCEPT !.temp_rast = Absent]
    /\ log' = Append(log, Event("g.remove temp_rast", Cat))
    /\ pc' = AfterFeature
    /\ pos' = IF AfterFeature = "returned" THEN pos ELSE pos + 1
    /\ outcome' = IF AfterFeature = "returned" THEN "ok" ELSE outcome
    /\ UNCHANGED <<entry, function, kwmask, select_cats, cats, i, val,
                   named, attr0, ws0, ncalls>>
    /\ UNCHANGED jobVars
    /\ UNCHANGED <<columns, attr, region, mask>>
    /\ UNCHANGED phVars
    /\ UNCHANGED ctorVars
    /\ UNCHANGED argVars

\* The caller has the result of run (its return or its exception); the
\* locals of the call are gone.
RunLeave ==
    /\ pc \in {"returned", "raised"}
    /\ pc' = "idle"
    /\ entry' = "" /\ function' = "" /\ kwmask' = FALSE
    /\ select_cats' = AllSelected /\ cats' = << >> /\ pos' = 0 /\ i' = 0
    /\ val' = NoVal /\ named' = NoneNamed /\ log' = << >>
    /\ attr0' = attr
    /\ ws0' = Workspace
    /\ UNCHANGED <<outcome, ncalls>>
    /\ UNCHANGED jobVars
    /\ UNCHANGED engineVars
    /\ UNCHANGED phVars
    /\ UNCHANGED ctorVars
    /\ UNCHANGED argVars

Next ==
    \/ GeneralizedZonalStats_init
    \/ create_new_column
    \/ RunEnter
    \/ RunLoop
    \/ RunExtent
    \/ RunRasterize
    \/ RunZoom
    \/ RunMask
    \/ RunMapcalc
    \/ RunMetric
    \/ RunUpdate
    \/ RunRemoveInput
    \/ RunUnmask
    \/ RunRemove
    \/ RunLeave

Spec == Init /\ [][Next]_vars

\* ---------------------------------------------------- __init__ on its own
\* The job is constructed on a mapset holding any of its layers, with any
\* overwrite flags.

NextInit == GeneralizedZonalStats_init

SpecInit == InitAnyMapset /\ [][NextInit]_vars

\* ------------------------------------------- create_new_column on its own
\* The job is constructed and create_new_column is called, and called again
\* with the same arguments, with no run in between.

NextCols ==
    \/ GeneralizedZonalStats_init
    \/ create_new_column
    \/ create_new_column_again

SpecCols == Init /\ [][NextCols]_vars

\* ------------------------------------------- proportion_habitat on its own
\* proportion_habitat called directly (as at the end of the test script) on a
\* raster with any of the r.stats tables of StatTables.

InitPH ==
    /\ module = "v001"
    /\ load_ok = FALSE /\ set_cols = FALSE
    /\ input_shape = "mun_teste_wgs84"
    /\ input_rasters = InputRasters
    /\ column_names = << >>
    /\ columns = {}
    /\ attr = [c \in LayerCats(input_shape) |-> [n \in ColNames |-> NullText]]
    /\ region = AllCells /\ mask = NoMask /\ temp = NoTemp
    /\ pc = "ph_call" /\ FrameIdle /\ attr0 = attr /\ ws0 = Workspace /\ outcome = "" /\ ncalls = 0
    /\ ph_table \in StatTables
    /\ ph_result = NoVal /\ np_rast = Absent.cells
    /\ mapset = Range(JobLayers(input_shape, input_rasters))
    /\ overwrite_shape = FALSE /\ overwrite_rasters = FALSE
    /\ ArgsIdle

CallProportionHabitat ==
    /\ pc = "ph_call"
    /\ ph_result' = proportion_habitat(ph_table)
    /\ pc' = "ph_done"
    /\ UNCHANGED <<ph_table, np_rast>>
    /\ UNCHANGED ctorVars
    /\ UNCHANGED argVars
    /\ UNCHANGED jobVars
    /\ UNCHANGED engineVars
    /\ UNCHANGED <<entry, function, kwmask, select_cats, cats, pos, i, val,
                   named, attr0, ws0, outcome, log, ncalls>>

NextPH == CallProportionHabitat

SpecPH == InitPH /\ [][NextPH]_vars

\* ----------------------------------------------- number_patches on its own
\* number_patches called directly on a category raster of three cells, with
\* and without mask = True, in a window and under a MASK the caller has set.

\* The category rasters: a label or null in each of the cells 1 to 3, null in
\* the cells beyond.
LabelRasters ==
    {[c \in AllCells |-> IF c \in DOMAIN f THEN f[c] ELSE NullMark] :
        f \in [1 .. 3 -> {"1", "2", "3", NullMark}]}

InitNP ==
    /\ module = "v001"
    /\ load_ok = FALSE /\ set_cols = FALSE
    /\ input_shape = "mun_teste_wgs84"
    /\ input_rasters = InputRasters
    /\ column_names = << >>
    /\ columns = {}
    /\ attr = [c \in LayerCats(input_shape) |-> [n \in ColNames |-> NullText]]
    /\ region \in {AllCells, Extent(1), {2, 3}}
    /\ mask \in {NoMask, r_mask(1, AllCells)}
    /\ temp = NoTemp
    /\ pc = "np_call" /\ FrameIdle /\ attr0 = attr /\ ws0 = Workspace /\ outcome = "" /\ ncalls = 0
    /\ ph_table = << >> /\ ph_result = NoVal
    /\ np_rast \in LabelRasters
    /\ mapset = Range(JobLayers(input_shape, input_rasters))
    /\ overwrite_shape = FALSE /\ overwrite_rasters = FALSE
    /\ ArgsIdle

\* number_patches(np_rast, mask = use_mask); the call may be made again.
CallNumberPatches ==
    /\ pc = "np_call" /\ ncalls < MaxCalls
    /\ \E use_mask \in BOOLEAN, category_ok \in BOOLEAN :
          LET r == NumberPatchesCall(np_rast, use_mask, region, mask, temp,
                                     category_ok)
          IN  /\ kwmask' = use_mask
              /\ val' = r.result
              /\ temp' = r.temp
              /\ outcome' = IF r.result.kind = "value" THEN "ok"
                             ELSE r.result.kind
    /\ ncalls' = ncalls + 1
    /\ UNCHANGED <<columns, attr, region, mask>>
    /\ UNCHANGED <<pc, entry, function, select_cats, cats, pos, i, named,
                   attr0, ws0, log>>
    /\ UNCHANGED jobVars
    /\ UNCHANGED phVars
    /\ UNCHANGED ctorVars
    /\ UNCHANGED argVars

NextNP == CallNumberPatches

SpecNP == InitNP /\ [][NextNP]_vars

\* ------------------------------------------------------------------ claims

\* The values of the rows of a table, and its cells of value 0 and of value 1.
TableValues(t) == {t[k].val : k \in 1 .. Len(t)}
Zeros(t) == CountOf(t, "0")
Ones(t) == CountOf(t, "1")

\* A table of a raster whose non-null cells are all 0 or 1.
OnlyZeroOne(t) == TableValues(t) \subseteq {"0", "1", NullMark}

\* C1 (as stated): for every table with z zero-cells and o one-cells,
\* z + o > 0, and no other non-null value, with or without a null row,
\* proportion_habitat returns r with r * (o + z) = 100 * o and 0 <= r <= 100.
C1_ProportionFormula ==
    (pc = "ph_done" /\ OnlyZeroOne(ph_table) /\ Zeros(ph_table) + Ones(ph_table) > 0)
    => /\ ph_result.kind = "value"
       /\ ph_result.num * (Ones(ph_table) + Zeros(ph_table))
             = 100 * Ones(ph_table) * ph_result.den
       /\ 0 <= ph_result.num
       /\ ph_result.num <= 100 * ph_result.den

\* C2 (as stated): an absent 0 row counts as zero count 0 and an absent 1 row
\* as one count 0, so an all-zero mask returns 0.0 and an all-one mask returns
\* 100.0, for every table shape, the single-row table included.
C2_DegenerateShapes ==
    (pc = "ph_done" /\ OnlyZeroOne(ph_table))
    => /\ (Ones(ph_table) = 0 /\ Zeros(ph_table) > 0)
             => (ph_result.kind = "value" /\ ph_result.num = 0)
       /\ (Zeros(ph_table) = 0 /\ Ones(ph_table) > 0)
             => (ph_result.kind = "value"
                 /\ ph_result.num = 100 * ph_result.den)

\* A call that ended in an error about the values of the raster: an exception,
\* or a grass.error message and no number.
InvalidRasterValues(r) ==
    r.kind # "value" /\ (r.kind # "none" \/ r.errors # << >>)

\* C3 (as stated): whenever the table has a non-null value other than 0 and 1,
\* proportion_habitat fails with an invalid-values error and returns no number.
C3_InvalidValuesRejected ==
    (pc = "ph_done" /\ ~OnlyZeroOne(ph_table)) => InvalidRasterValues(ph_result)

\* A call that ended in the handler of the division: the except branch of the
\* try block around one_count_float / (one_count_float + zero_count_float).
DivisionUndefined(r) ==
    r.kind = "none" /\ r.errors # << >>
    /\ r.errors[Len(r.errors)] = "not_only_0_1"

\* C4 (as stated): when the zero count and the one count are both 0 (the table
\* is empty or holds only the null row) proportion_habitat fails with the
\* error of the undefined division.
C4_DivisionUndefined ==
    (pc = "ph_done" /\ TableValues(ph_table) \subseteq {NullMark})
    => DivisionUndefined(ph_result)

\* A call of run_zonal_stats or run_zonal_stats_v2 is in progress or has just
\* ended (its locals are still there).
InRun == entry # ""

\* C5: a run entered while load_ok or set_cols is false raises the exception
\* that names the unmet precondition (the maps first, else the columns) and
\* has issued no module call and changed no table cell before it.
C5_NotReadyBeforeAnyCall ==
    (InRun /\ ~(load_ok /\ set_cols))
    => /\ pc = "raised"
       /\ outcome = IF ~load_ok THEN "Maps were not loaded successfully"
                    ELSE "Columns were not set successfully"
       /\ log = << >>
       /\ attr = attr0

\* C5, its case reached: a run refused on a job whose maps and columns are
\* both unset.
C5_Witness ==
    /\ pc = "raised" /\ InRun /\ ~load_ok /\ ~set_cols
    /\ outcome = "Maps were not loaded successfully"

\* The value the metric function returns for a raster restricted to feature
\* f alone: the window zoomed to f, the MASK of f, nothing else in the mapset.
OwnValue(fn, use_mask, f, rast) ==
    CallMetric(fn, use_mask, RasterCells(rast), Hull(Footprint(f)),
               [cat |-> f, cells |-> Footprint(f)], NoTemp)

\* The table a run over the features fs leaves, whatever the order: the
\* column of each raster holds the feature's own value, all else is as before.
OwnTable(before, fs, fn, use_mask, names, rasters) ==
    [f \in DOMAIN before |->
        [n \in ColNames |->
            IF f \in fs /\ \E k \in 1 .. Len(rasters) : names[k] = n
            THEN Str(OwnValue(fn, use_mask, f,
                     rasters[CHOOSE k \in 1 .. Len(rasters) : names[k] = n]))
            ELSE before[f][n]]]

\* C6: after run_zonal_stats returns, column_names[i] of every processed
\* feature holds the value the metric function returns for input_rasters[i]
\* restricted to that feature, and the table is the same for every order in
\* which the rows were processed.
C6_OwnValuePerFeature ==
    (pc = "returned" /\ entry = "run_zonal_stats")
    => /\ \A f \in Range(cats) : \A k \in 1 .. Len(input_rasters) :
             attr[f][column_names[k]]
                = Str(OwnValue(function, kwmask, f, input_rasters[k]))
       /\ attr = OwnTable(attr0, Range(cats), function, kwmask,
                          column_names, input_rasters)

\* C6, its case reached: a run over the three features, the last row first,
\* has returned and filled the table.
C6_Witness ==
    /\ pc = "returned" /\ entry = "run_zonal_stats"
    /\ cats = <<3, 1, 2>>
    /\ \A f \in Range(cats) : attr[f] # attr0[f]

\* select_cats is a list that names features of the layer, each once.
NamesSubset == ~named.all /\ named.len = Cardinality(named.ids)

\* C7: a run whose select_cats names a subset of the features writes only to
\* the rows of the named features: every column of every other feature keeps
\* the text it had when the run was entered.
C7_UnselectedRowsKept ==
    (InRun /\ NamesSubset)
    => \A f \in DOMAIN attr \ named.ids : attr[f] = attr0[f]

\* C7, its case reached: a run with select_cats = ['2'] has returned and has
\* written feature 2.
C7_Witness ==
    /\ pc = "returned" /\ NamesSubset /\ named.ids = {2}
    /\ attr[2] # attr0[2]

\* C8 (as stated): for every select_cats list, of any length, with unknown
\* identifiers or repeats, the features run processes are exactly the listed
\* identifiers that are in the table.
C8_ProcessedIsSelectedAndKnown ==
    (pc = "selected" /\ ~select_cats.all)
    => Range(cats) = Range(select_cats.ids) \cap LayerCats(input_shape)

\* C9 (as stated): once run has finished, returned or raised, none of its
\* temporary rasters (temp_rast, temp_rast_input, pid_mask) is in the mapset.
C9_NoTemporaryRasterLeft ==
    (InRun /\ pc \in {"returned", "raised"})
    => /\ ~temp.temp_rast.exists
       /\ ~temp.temp_rast_input.exists
       /\ ~temp.pid_mask.exists

\* C10 (as stated): during a run at most one feature's MASK is set, it is the
\* MASK of the feature being processed, it is removed before the extent of the
\* next feature is queried, and none is set once run has finished, returned
\* or raised.
C10_MaskCleared ==
    InRun
    => /\ (pc \in {"returned", "raised", "extent"} => mask = NoMask)
       /\ (pc \in {"metric", "update", "unmask"} /\ mask # NoMask
             => mask.cat = Cat)

\* A step that is one whole call of create_new_column.
CreateStep == pc = "idle" /\ pc' = "idle" /\ ncalls' = ncalls + 1

\* A name of the list is longer than 10 characters.
HasLongName(names) == \E k \in 1 .. Len(names) : NameLen(names[k]) > 10

\* The lists of names and of types are as long as the list of rasters.
LengthsAgree(names, types, rasters) ==
    Len(names) = Len(rasters) /\ Len(types) = Len(rasters)

\* The call issued v.db.addcolumn.
AddIssued(l) == \E k \in 1 .. Len(l) : l[k].op = "v.db.addcolumn"

\* The call ended in an exception.
RaisedKinds == {"ValueError", "Exception", "NameError", "CalledModuleError"}

\* The places of the list whose column is in the table already.
Conflicts(names, existing) == {k \in 1 .. Len(names) : names[k] \in existing}

\* The caller declines a prompt: there are more conflicts than Y answers.
Declines(names, existing, yes) == Cardinality(Conflicts(names, existing)) > yes

\* The place of the conflict the caller declines.
DeclinedAt(names, existing, yes) ==
    CHOOSE k \in Conflicts(names, existing) :
        Cardinality({j \in Conflicts(names, existing) : j < k}) = yes

\* The places of the list whose column is to be created with a tag that is
\* not int, float or string.
UnknownNew(names, types, existing) ==
    {k \in 1 .. Len(names) :
        names[k] \notin existing /\ types[k] \notin {"int", "float", "string"}}

\* C11: a create_new_column call whose list has a name longer than 10
\* characters, at any place, raises ValueError before any query or change of
\* the attribute table: no module call is issued, no column is added, no cell
\* changes, and set_cols is as before.
C11_LongNameRejected ==
    [][(CreateStep /\ HasLongName(column_names'))
        => /\ outcome' = "ValueError"
           /\ log' = << >>
           /\ columns' = columns /\ attr' = attr
           /\ set_cols' = set_cols]_vars

\* C11, its case reached: a call whose second name is the long one, after a
\* short first name, has raised ValueError.
C11_Witness ==
    /\ pc = "idle" /\ outcome = "ValueError" /\ log = << >>
    /\ Len(column_names) = 2
    /\ NameLen(column_names[1]) <= 10 /\ NameLen(column_names[2]) > 10

\* C12 (as stated): a call whose lists of names, types and rasters are not
\* equally long raises an error and changes nothing: column_names, set_cols
\* and the columns of the table are as before the call.
C12_LengthMismatchNoChange ==
    [][(CreateStep /\ ~LengthsAgree(column_names', type_col', input_rasters))
        => /\ outcome' \in RaisedKinds
           /\ column_names' = column_names
           /\ set_cols' = set_cols
           /\ columns' = columns]_vars

\* C13: when the caller declines the prompt of a column that exists (and no
\* unknown tag of a new column is met before it), create_new_column raises
\* the exception of the stopped process, v.db.addcolumn is not issued, the
\* table has the columns it had, new columns listed before the conflict
\* included, and set_cols is as before.
C13_AbortCreatesNothing ==
    [][(/\ CreateStep
        /\ ~HasLongName(column_names')
        /\ LengthsAgree(column_names', type_col', input_rasters)
        /\ input_shape \in mapset
        /\ Declines(column_names', columns, answers')
        /\ \A j \in UnknownNew(column_names', type_col', columns) :
               j > DeclinedAt(column_names', columns, answers'))
        => /\ outcome' = "Exception"
           /\ ~AddIssued(log')
           /\ columns' = columns
           /\ set_cols' = set_cols]_vars

\* C13, its case reached: the first name is a new column of a known type,
\* the second exists and its prompt was declined; nothing was created.
C13_Witness ==
    /\ pc = "idle" /\ outcome = "Exception" /\ answers = 0
    /\ column_names = <<"p_eu_2003", "p_eu_2002">>
    /\ type_col = <<"float", "float">>
    /\ columns = {"p_eu_2002"} /\ ~set_cols

VisibleLabels(cs, reg, msk) ==
    {cs[c] : c \in {d \in reg : msk.cat = 0 \/ d \in msk.cells}} \ {NullMark}

\* C16: a call of number_patches that returns, returns the number k of
\* distinct non-null labels of the raster (0 when there is none), whatever
\* the labels and their order, and with mask = True the same k.
C16_CountsDistinctLabels ==
    (pc = "np_call" /\ ncalls > 0 /\ outcome = "ok")
    => val = Returned(Cardinality(VisibleLabels(np_rast, region, mask)), 1, << >>)

\* C16, its case reached: with mask = True, a raster with the labels 3 and 1
\* (in this order, the third cell null) gave 2.
C16_Witness ==
    /\ pc = "np_call" /\ outcome = "ok" /\ kwmask
    /\ np_rast[1] = "3" /\ np_rast[2] = "1" /\ np_rast[3] = NullMark
    /\ region = AllCells /\ mask = NoMask
    /\ val = Returned(2, 1, << >>)

\* C17 (as stated): after a call of number_patches has returned or raised,
\* pid_mask is not in the mapset.
C17_PidMaskRemoved ==
    (pc = "np_call" /\ ncalls > 0) => ~temp.pid_mask.exists

\* A step that is the rest of __init__.
InitStep == pc = "init" /\ pc' = "idle"

\* The overwrite flag __init__ reads for the k-th layer of the job.
OverwriteFlag(k) == IF k = 1 THEN overwrite_shape ELSE overwrite_rasters

\* The k-th layer of the job was imported / was named in a warning by the
\* call whose module calls are l.
Imported(l, k) ==
    \E j \in 1 .. Len(l) :
        l[j] = [op |-> IF k = 1 THEN "v.in.ogr" ELSE "r.in.gdal", cat |-> k - 1]
Warned(l, k) ==
    \E j \in 1 .. Len(l) : l[j] = [op |-> "grass.warning", cat |-> k - 1]

\* C18: a constructor that ends with load_ok = True has imported each layer of
\* the job exactly when the layer was absent from the mapset or its overwrite
\* flag was set, has named every other layer in a warning and not imported
\* it, one event per layer, and all layers are in the mapset; when no layer
\* needs an import the constructor always ends with load_ok = True.
C18_ImportIffAbsentOrOverwrite ==
    [][InitStep
        => LET layers == JobLayers(input_shape, input_rasters)
               Needed(k) == layers[k] \notin mapset \/ OverwriteFlag(k)
           IN  /\ load_ok'
                    => /\ \A k \in 1 .. Len(layers) :
                             /\ Imported(log', k) <=> Needed(k)
                             /\ Warned(log', k) <=> ~Needed(k)
                       /\ Len(log') = Len(layers)
                       /\ Range(layers) \subseteq mapset'
               /\ (\A k \in 1 .. Len(layers) : ~Needed(k)) => load_ok']_vars

\* C18, its case reached: no overwrite; the vector layer and the second raster
\* were there and got a warning, the first raster was imported, load_ok is
\* True.
C18_Witness ==
    /\ pc = "idle" /\ ncalls = 0 /\ load_ok
    /\ log = <<[op |-> "grass.warning", cat |-> 0],
               [op |-> "r.in.gdal", cat |-> 1],
               [op |-> "grass.warning", cat |-> 2]>>

\* The value run_zonal_stats_v2 gets for feature f: the metric function on
\* the copy of the raster cut to f, in the window zoomed to f.
OwnValueV2(fn, use_mask, f, rast) ==
    CallMetric(fn, use_mask,
               [c \in AllCells |->
                   IF c \in Footprint(f) THEN RasterCells(rast)[c] ELSE NullMark],
               Hull(Footprint(f)), NoMask, NoTemp)

\* C19: when a run (past its readiness test) raises at feature cats[pos],
\* the exception ends the run; no module call was issued for a later feature,
\* the rows of the later features are as they were when the run was entered,
\* and the rows of the features before hold the values the run wrote.  An
\* exception of the metric function always ends the run.
C19_FailureIsFatal ==
    /\ (InRun /\ val.kind \notin {"value", "none"}) => pc = "raised"
    /\ (InRun /\ pc = "raised" /\ pos >= 1)
        => /\ outcome \in {"IndexError", "Exception", "CalledModuleError"}
           /\ \A k \in 1 .. Len(log) :
                 log[k].cat \in {0} \cup {cats[j] : j \in 1 .. pos}
           /\ \A f \in DOMAIN attr \ {cats[j] : j \in 1 .. pos} :
                 attr[f] = attr0[f]
           /\ \A j \in 1 .. pos - 1 : \A k \in 1 .. Len(input_rasters) :
                 attr[cats[j]][column_names[k]]
                    = Str(IF entry = "run_zonal_stats_v2"
                          THEN OwnValueV2(function, kwmask, cats[j],
                                          input_rasters[k])
                          ELSE OwnValue(function, kwmask, cats[j],
                                        input_rasters[k]))

\* C19, its case reached: the run raised at the second of three features; the
\* first was written, the third was not.
C19_Witness ==
    /\ InRun /\ pc = "raised" /\ pos = 2 /\ Len(cats) = 3
    /\ input_shape = "mun_teste_wgs84"
    /\ attr[cats[1]] # attr0[cats[1]]
    /\ attr[cats[3]] = attr0[cats[3]]

\* The module calls of one feature c, for n rasters, in the order of the loop
\* body of run_zonal_stats and of run_zonal_stats_v2.
FeatureEvents(e, c, n) ==
    LET Ev(op) == [op |-> op, cat |-> c]
        head == <<Ev("extent"), Ev("g.region"), Ev("v.to.rast"),
                  Ev("g.region zoom")>>
        one  == IF e = "run_zonal_stats_v2"
                THEN <<Ev("r.mapcalc"), Ev("function"), Ev("v.db.update"),
                       Ev("g.remove temp_rast_input")>>
                ELSE <<Ev("function"), Ev("v.db.update")>>
        Rep[k \in 0 .. n] == IF k = 0 THEN << >> ELSE Rep[k - 1] \o one
    IN  IF e = "run_zonal_stats_v2"
        THEN head \o Rep[n] \o <<Ev("g.remove temp_rast")>>
        ELSE head \o <<Ev("r.mask")>> \o Rep[n]
             \o <<Ev("r.mask -r"), Ev("g.remove temp_rast")>>

\* The module calls of a whole run over the rows q.
ExpectedLog(e, q, n) ==
    LET All[k \in 0 .. Len(q)] ==
            IF k = 0 THEN <<[op |-> "db.select", cat |-> 0]>>
            ELSE All[k - 1] \o FeatureEvents(e, q[k], n)
    IN  All[Len(q)]

IsPrefix(a, b) == Len(a) <= Len(b) /\ a = SubSeq(b, 1, Len(a))

\* C20: the module calls of a run (past its readiness test) are at every
\* moment a beginning of: the enumeration, then for each row of cats in turn
\* extent and window, rasterization, zoom, mask (or per raster the masked
\* copy), per raster one call of the function and one update, and the
\* release; they are the whole of it when run returns.  No row is in cats
\* twice, and the function is called only in the window of the feature of
\* the loop and under its mask (or on its masked copy).
C20_EventOrder ==
    (InRun /\ log # << >>)
    => /\ IsPrefix(log, ExpectedLog(entry, cats, Len(input_rasters)))
       /\ pc = "returned"
             => log = ExpectedLog(entry, cats, Len(input_rasters))
       /\ \A a, b \in 1 .. Len(cats) : a # b => cats[a] # cats[b]
       /\ pc = "metric"
             => /\ region = Hull(Footprint(cats[pos]))
                /\ entry = "run_zonal_stats"
                      => mask = [cat |-> cats[pos],
                                 cells |-> Footprint(cats[pos])]
                /\ entry = "run_zonal_stats_v2"
                      => /\ temp.temp_rast_input.exists
                         /\ \A c \in AllCells :
                               temp.temp_rast_input.cells[c] # NullMark
                                  => c \in Footprint(cats[pos])

\* C20, its case reached: run_zonal_stats_v2 has returned from three features
\* and two rasters with all its module calls in order.
C20_Witness ==
    /\ InRun /\ pc = "returned" /\ entry = "run_zonal_stats_v2"
    /\ cats = <<3, 1, 2>> /\ Len(input_rasters) = 2
    /\ Len(log) = 40
    /\ log = ExpectedLog(entry, cats, 2)

\* C21: the rows a run (past its readiness test) goes through are rows of the
\* attribute table of the job's own vector layer, whatever its name, and are
\* all of them when select_cats is 'all'.
C21_EnumeratesOwnTable ==
    (InRun /\ log # << >>)
    => /\ Range(cats) \subseteq LayerCats(input_shape)
       /\ named.all => Range(cats) = LayerCats(input_shape)

\* The entries of a columns argument, without the separators.
ListEntries(l) == SelectSeq(l, LAMBDA x : x # Comma)

\* A columns argument is well formed: it is not empty, it neither begins nor
\* ends with a separator, and no two separators follow each other.
WellFormed(l) ==
    /\ l # << >>
    /\ l[1] # Comma /\ l[Len(l)] # Comma
    /\ \A k \in 1 .. Len(l) - 1 : ~(l[k] = Comma /\ l[k + 1] = Comma)
    /\ \A k \in 1 .. Len(l) - 1 : l[k] # Comma => l[k + 1] = Comma

\* C22: a call of create_new_column issues v.db.addcolumn at most once; the
\* columns argument it passes is well formed and names the requested columns
\* that were absent from the table, in order, each once with its mapped type.
C22_ColumnListWellFormed ==
    [][CreateStep =>
          /\ Cardinality({k \in 1 .. Len(log') :
                              log'[k].op = "v.db.addcolumn"}) <= 1
          /\ AddIssued(log') <=> list_cols' # << >>
          /\ AddIssued(log')
                => /\ WellFormed(list_cols')
                   /\ ListEntries(list_cols')
                         = LET absent == {k \in 1 .. Len(column_names') :
                                             column_names'[k] \notin columns}
                               Pick[k \in 0 .. Len(column_names')] ==
                                   IF k = 0 THEN << >>
                                   ELSE IF k \in absent
                                   THEN Append(Pick[k - 1],
                                               [name |-> column_names'[k],
                                                type |-> TypeColStr(type_col'[k])])
                                   ELSE Pick[k - 1]
                           IN  Pick[Len(column_names')]]_vars

\* C23: a run that returns leaves the MASK and the temporary rasters of the
\* mapset as they were when it was entered.
C23_RunLeavesWorkspace ==
    (InRun /\ pc = "returned") => Workspace = ws0

\* C24: whenever set_cols is true, column_names has one name per raster, no
\* name is longer than 10 characters and every name is a column of the table.
C24_ReadyNamesValid ==
    set_cols
    => /\ Len(column_names) = Len(input_rasters)
       /\ ~HasLongName(column_names)
       /\ Range(column_names) \subseteq columns

\* C25: when run_zonal_stats_v2 returns, every cell of a processed feature
\* and of the column of a raster holds the value run_zonal_stats writes there
\* (the value of the function in the feature's window under the feature's
\* mask), and the global MASK is as it was when the run was entered.
C25_SameValuesBothStrategies ==
    (InRun /\ pc = "returned" /\ entry = "run_zonal_stats_v2")
    => /\ mask = ws0.mask
       /\ \A j \in 1 .. Len(cats), k \in 1 .. Len(input_rasters) :
             attr[cats[j]][column_names[k]]
                = Str(OwnValue(function, kwmask, cats[j], input_rasters[k]))

\* C26: the value a run is about to pass to v.db.update is a number the
\* function returned, and no cell of the attribute table holds the text None.
C26_NoPlaceholderStored ==
    /\ (InRun /\ pc = "update") => val.kind = "value"
    /\ \A f \in DOMAIN attr, n \in ColNames : attr[f][n].text # "None"

====
